---- MODULE Spec2Model ----
(***************************************************************************)
(* Model of controllers/itemController.js: the item write pipeline         *)
(* (validate -> upload image -> persist -> respond) over the Catalog Store *)
(* (items, item instances, slots) and the Image Store.                     *)
(*                                                                         *)
(* A handler is cut at its awaits: every action is the synchronous code    *)
(* that runs up to an await together with the store operation that await   *)
(* performs, so the arrival of a request is part of its first action.  The *)
(* two reads of a Promise.all are taken in one step.  Strings the code     *)
(* inspects (form fields, mime types) are sequences of one-character       *)
(* strings.  `last' records the request that completed last: its inputs    *)
(* and the calls its handler made on res, in order.                        *)
(*                                                                         *)
(* The _id that `new Item' generates is drawn from nextItemId; a candidate *)
(* that is rendered and never saved shows the next id without taking it.   *)
(***************************************************************************)
EXTENDS Integers, Sequences, FiniteSets, TLC

VARIABLES items, instances, slots, images, nextItemId, nextImageId, req, last

vars == <<items, instances, slots, images, nextItemId, nextImageId, req, last>>

stores == <<items, instances, slots, images>>

----------------------------------------------------------------------------
(* Bounds *)

MaxItems == 2
MaxInstances == 1
MaxImages == 2
MaxRequests == 1

ItemIds == 1..MaxItems
InstanceIds == 1..MaxInstances
Requests == 1..MaxRequests

----------------------------------------------------------------------------
(* Strings *)

WhitespaceChars == {" ", "\t"}

RECURSIVE LTrim(_)
LTrim(s) ==
  IF s # <<>> /\ Head(s) \in WhitespaceChars THEN LTrim(Tail(s)) ELSE s

RECURSIVE RTrim(_)
RTrim(s) ==
  IF s # <<>> /\ s[Len(s)] \in WhitespaceChars
  THEN RTrim(SubSeq(s, 1, Len(s) - 1))
  ELSE s

Trim(s) == RTrim(LTrim(s))

EscapeChar(c) ==
  CASE c = "&" -> <<"&", "a", "m", "p", ";">>
    [] c = "<" -> <<"&", "l", "t", ";">>
    [] c = ">" -> <<"&", "g", "t", ";">>
    [] c = "\"" -> <<"&", "q", "u", "o", "t", ";">>
    [] c = "'" -> <<"&", "#", "x", "2", "7", ";">>
    [] c = "/" -> <<"&", "#", "x", "2", "F", ";">>
    [] c = "\\" -> <<"&", "#", "x", "5", "C", ";">>
    [] OTHER -> <<c>>

RECURSIVE Escape(_)
Escape(s) ==
  IF s = <<>> THEN <<>> ELSE EscapeChar(Head(s)) \o Escape(Tail(s))

StartsWith(s, prefix) ==
  /\ Len(s) >= Len(prefix)
  /\ SubSeq(s, 1, Len(prefix)) = prefix

ImagePrefix == <<"i", "m", "a", "g", "e", "/">>

----------------------------------------------------------------------------
(* Request inputs *)

\* A field the form did not send; the handlers compare the code with !=.
Undefined == "undefined"
ExpectedCode == "123"
Codes == {"123", "321"}

NoFile == [present |-> FALSE, mimetype |-> <<>>, buffer |-> 0]
PngFile ==
  [present |-> TRUE,
   mimetype |-> <<"i", "m", "a", "g", "e", "/", "p", "n", "g">>,
   buffer |-> 1]
TextFile ==
  [present |-> TRUE,
   mimetype |-> <<"t", "e", "x", "t", "/", "p", "l", "a", "i", "n">>,
   buffer |-> 2]
Files == {NoFile, PngFile, TextFile}

NoBody == [name |-> <<>>, description |-> <<>>, quality |-> <<>>, slot |-> <<>>]
SwordBody ==
  [name |-> <<" ", "S", "w">>, description |-> <<"a", "<", "b">>,
   quality |-> <<"E">>, slot |-> <<"s", "1">>]
HelmBody ==
  [name |-> <<"H", " ">>, description |-> <<"o", ">", "d", " ">>,
   quality |-> <<"R">>, slot |-> <<"s", "1">>]
BlankBody ==
  [name |-> <<" ">>, description |-> <<" ", "a", "b", " ">>,
   quality |-> <<"E">>, slot |-> <<"s", "1">>]
Bodies == {HelmBody, BlankBody}

NoInput ==
  [id |-> 0, itemid |-> 0, security_code |-> Undefined, body |-> NoBody, file |-> NoFile]

CreateInputs ==
  {[id |-> 0, itemid |-> 0, security_code |-> Undefined, body |-> b, file |-> f] :
     b \in Bodies \cup {SwordBody}, f \in Files}

UpdateInputs ==
  {[id |-> i, itemid |-> 0, security_code |-> c, body |-> b, file |-> f] :
     i \in ItemIds, c \in Codes, b \in Bodies, f \in Files}

DeleteGetInputs ==
  {[id |-> i, itemid |-> 0, security_code |-> Undefined, body |-> NoBody, file |-> NoFile] :
     i \in ItemIds}

DeletePostInputs ==
  {[id |-> i, itemid |-> j, security_code |-> c, body |-> NoBody, file |-> NoFile] :
     i \in ItemIds, j \in ItemIds, c \in Codes}

----------------------------------------------------------------------------
(* Validation Stage *)

FieldError(path, msg) == [path |-> path, msg |-> msg]

LengthRule_NoTrim(value, min, path, msg) ==
  IF Len(value) >= min THEN <<>> ELSE <<FieldError(path, msg)>>

\* body(field, msg).trim().isLength({ min }).escape()
LengthRule(value, min, path, msg) ==
  IF Len(Trim(value)) >= min THEN <<>> ELSE <<FieldError(path, msg)>>

Sanitize(value) == Escape(Trim(value))

ImageRule(file) ==
  IF ~file.present THEN <<>>
  ELSE IF StartsWith(file.mimetype, ImagePrefix) THEN <<>>
  ELSE <<FieldError("itemImage", "Please submit a image file")>>

item_create_post_validators(body, file) ==
  LengthRule(body.name, 1, "name", "Name must not be empty.")
  \o LengthRule(body.description, 3, "description", "Description must not be empty.")
  \o LengthRule(body.quality, 1, "quality", "Quality must not be empty.")
  \o LengthRule(body.slot, 1, "slot", "Slot must not be empty")
  \o ImageRule(file)

item_update_post_validators(body, file) ==
  LengthRule(body.name, 1, "name", "Name must not be empty.")
  \o LengthRule(body.description, 3, "description", "Description must not be empty.")
  \o LengthRule(body.quality, 1, "quality", "Quality must not be empty.")
  \o LengthRule(body.slot, 1, "slot", "Slot must not be empty")
  \o ImageRule(file)

SanitizedBody(body) ==
  [name |-> Sanitize(body.name), description |-> Sanitize(body.description),
   quality |-> Sanitize(body.quality), slot |-> Sanitize(body.slot)]

----------------------------------------------------------------------------
(* Catalog Store and Image Store *)

Null == [null |-> TRUE]

Sentinel == <<"#">>

\* imgUrl of a candidate before the handler sets it
Unset == <<>>

Folder == "wow_inventory"

ItemDoc(id, fields, imgUrl) ==
  [_id |-> id, name |-> fields.name, description |-> fields.description,
   quality |-> fields.quality, slot |-> fields.slot, imgUrl |-> imgUrl]

ItemUrl(id) == [path |-> "/catalog/item", id |-> id]

ItemListUrl == [path |-> "/catalog/items", id |-> 0]

findById(id) == items[id]

\* ItemInstance.find({ item: id }).populate("item")
findInstances(id) ==
  {[_id |-> i._id, item |-> items[id]] : i \in {j \in instances : j.item = id}}

findByIdAndDelete(id) == [items EXCEPT ![id] = Null]

findByIdAndUpdate_Upsert(id, doc) == [items EXCEPT ![id] = doc]

findByIdAndUpdate(id, doc) ==
  IF items[id] = Null THEN items ELSE [items EXCEPT ![id] = doc]

DataURI(file) == <<"data:", file.mimetype, ";base64,", file.buffer>>

SecureUrl(public_id) == <<"https://res.cloudinary.com/", Folder, "/", public_id>>

Asset(public_id, file) ==
  [public_id |-> public_id, folder |-> Folder, resource_type |-> "image",
   data |-> DataURI(file)]

Upload_NoFolder(public_id, file) ==
  {a \in images : a.public_id # public_id}
    \cup {[Asset(public_id, file) EXCEPT !.folder = ""]}

\* cloudinary.uploader.upload: one asset per public id, replaced on overwrite
Upload(public_id, file) ==
  {a \in images : a.public_id # public_id} \cup {Asset(public_id, file)}

GeneratedId(n) == "g" \o ToString(n)

----------------------------------------------------------------------------
(* Requests and responses *)

Idle ==
  [pc |-> "idle", kind |-> "none", in |-> NoInput, item |-> Null, itemInstances |-> {},
   errors |-> <<>>]

Render(view, bag) == [op |-> "render", view |-> view, url |-> ItemListUrl, bag |-> bag]

Redirect(url) == [op |-> "redirect", view |-> "", url |-> url, bag |-> Null]

Respond(kind, in, errors, calls) ==
  last' = [n |-> 1 - last.n, kind |-> kind, in |-> in, errors |-> errors, calls |-> calls]

NoResponse == [n |-> 0, kind |-> "none", in |-> NoInput, errors |-> <<>>, calls |-> <<>>]

Init ==
  /\ items = [i \in ItemIds |-> Null]
  /\ instances = {}
  /\ slots = {"s1"}
  /\ images = {}
  /\ nextItemId = 1
  /\ nextImageId = 1
  /\ req = [r \in Requests |-> Idle]
  /\ last = NoResponse

----------------------------------------------------------------------------
(* item_create_post *)

CreateRefused_FileOnly(in) == ImageRule(in.file) # <<>>

CreateRefused(in) == item_create_post_validators(in.body, in.file) # <<>>

CreatePostRender(r, in) ==
  LET errors == item_create_post_validators(in.body, in.file)
      item == ItemDoc(nextItemId, SanitizedBody(in.body), Unset)
  IN /\ req[r] = Idle
     /\ CreateRefused(in)
     /\ Respond("item_create_post", in, errors,
                <<Render("item_form",
                         [title |-> "Create Item", slots |-> slots, item |-> item,
                          errors |-> errors])>>)
     /\ UNCHANGED <<items, instances, slots, images, nextItemId, nextImageId, req>>

CreatePostUpload(r, in) ==
  LET errors == item_create_post_validators(in.body, in.file)
      public_id == GeneratedId(nextImageId)
  IN /\ req[r] = Idle
     /\ ~CreateRefused(in)
     /\ in.file.present
     /\ nextItemId <= MaxItems
     /\ nextImageId <= MaxImages
     /\ images' = Upload(public_id, in.file)
     /\ nextImageId' = nextImageId + 1
     /\ nextItemId' = nextItemId + 1
     /\ req' = [req EXCEPT ![r] =
                  [pc |-> "uploaded", kind |-> "item_create_post", in |-> in,
                   item |-> ItemDoc(nextItemId, SanitizedBody(in.body), SecureUrl(public_id)),
                   itemInstances |-> {}, errors |-> errors]]
     /\ UNCHANGED <<items, instances, slots, last>>

CreatePostSave(r, in) ==
  LET errors == item_create_post_validators(in.body, in.file)
      fresh == req[r] = Idle
      item == IF fresh THEN ItemDoc(nextItemId, SanitizedBody(in.body), Sentinel)
              ELSE req[r].item
  IN /\ \/ /\ fresh
           /\ ~CreateRefused(in)
           /\ ~in.file.present
           /\ nextItemId <= MaxItems
           /\ nextItemId' = nextItemId + 1
        \/ /\ req[r].pc = "uploaded"
           /\ req[r].kind = "item_create_post"
           /\ in = req[r].in
           /\ UNCHANGED nextItemId
     /\ items' = [items EXCEPT ![item._id] = item]
     /\ req' = [req EXCEPT ![r] = Idle]
     /\ Respond("item_create_post", in, errors, <<Redirect(ItemUrl(item._id))>>)
     /\ UNCHANGED <<instances, slots, images, nextImageId>>

----------------------------------------------------------------------------
(* item_update_post *)

UpdateRefused_ErrorsOnly(in) == item_update_post_validators(in.body, in.file) # <<>>

UpdateRefused(in) ==
  item_update_post_validators(in.body, in.file) # <<>> \/ in.security_code # ExpectedCode

UpdatePostRender(r, in) ==
  LET errors == item_update_post_validators(in.body, in.file)
  IN /\ req[r] = Idle
     /\ UpdateRefused(in)
     /\ Respond("item_update_post", in, errors,
                <<Render("item_form",
                         [title |-> "Update Item", item |-> findById(in.id), slots |-> slots,
                          errors |-> errors, code |-> in.security_code,
                          form_type |-> "update",
                          error |-> IF in.security_code # ExpectedCode
                                    THEN "Wrong security code." ELSE ""])>>)
     /\ UNCHANGED <<items, instances, slots, images, nextItemId, nextImageId, req>>

UpdatePostUpload(r, in) ==
  LET errors == item_update_post_validators(in.body, in.file)
      public_id == ToString(in.id)
  IN /\ req[r] = Idle
     /\ ~UpdateRefused(in)
     /\ in.file.present
     /\ images' = Upload(public_id, in.file)
     /\ req' = [req EXCEPT ![r] =
                  [pc |-> "uploaded", kind |-> "item_update_post", in |-> in,
                   item |-> ItemDoc(in.id, SanitizedBody(in.body), SecureUrl(public_id)),
                   itemInstances |-> {}, errors |-> errors]]
     /\ UNCHANGED <<items, instances, slots, nextItemId, nextImageId, last>>

UpdatePostSave(r, in) ==
  LET errors == item_update_post_validators(in.body, in.file)
      fresh == req[r] = Idle
      item == IF fresh THEN ItemDoc(in.id, SanitizedBody(in.body), Sentinel)
              ELSE req[r].item
  IN /\ \/ /\ fresh
           /\ ~UpdateRefused(in)
           /\ ~in.file.present
        \/ /\ req[r].pc = "uploaded"
           /\ req[r].kind = "item_update_post"
           /\ in = req[r].in
     /\ items' = findByIdAndUpdate(in.id, item)
     /\ req' = [req EXCEPT ![r] = Idle]
     /\ Respond("item_update_post", in, errors, <<Redirect(ItemUrl(item._id))>>)
     /\ UNCHANGED <<instances, slots, images, nextItemId, nextImageId>>

----------------------------------------------------------------------------
(* item_delete_get *)

DeleteGet(r, in) ==
  LET item == findById(in.id)
      itemInstances == findInstances(in.id)
      render == Render("item_delete",
                       [title |-> "Delete Item", item |-> item,
                        itemInstances |-> itemInstances])
  IN /\ req[r] = Idle
     /\ Respond("item_delete_get", in, <<>>,
                IF item = Null THEN <<Redirect(ItemListUrl), render>> ELSE <<render>>)
     /\ UNCHANGED <<items, instances, slots, images, nextItemId, nextImageId, req>>

----------------------------------------------------------------------------
(* item_delete_post *)

DeleteRefused_CodeOnly(itemInstances, in) == in.security_code # ExpectedCode

DeleteRefused(itemInstances, in) ==
  Cardinality(itemInstances) > 0 \/ in.security_code # ExpectedCode

DeletePostRender_Deletes(r, in) ==
  LET item == findById(in.id)
      itemInstances == findInstances(in.id)
  IN /\ req[r] = Idle
     /\ Cardinality(itemInstances) > 0 \/ in.security_code # ExpectedCode
     /\ items' = findByIdAndDelete(in.itemid)
     /\ Respond("item_delete_post", in, <<>>,
                <<Render("item_delete",
                         [title |-> "Delete Item", item |-> item,
                          itemInstances |-> itemInstances, code |-> in.security_code,
                          error |-> "Wrong security code."])>>)
     /\ UNCHANGED <<instances, slots, images, nextItemId, nextImageId, req>>

DeletePostRender(r, in) ==
  LET item == findById(in.id)
      itemInstances == findInstances(in.id)
  IN /\ req[r] = Idle
     /\ DeleteRefused(itemInstances, in)
     /\ Respond("item_delete_post", in, <<>>,
                <<Render("item_delete",
                         [title |-> "Delete Item", item |-> item,
                          itemInstances |-> itemInstances, code |-> in.security_code,
                          error |-> "Wrong security code."])>>)
     /\ UNCHANGED <<items, instances, slots, images, nextItemId, nextImageId, req>>

DeletePostFetch(r, in) ==
  LET item == findById(in.id)
      itemInstances == findInstances(in.id)
  IN /\ req[r] = Idle
     /\ ~DeleteRefused(itemInstances, in)
     /\ req' = [req EXCEPT ![r] =
                  [pc |-> "deleting", kind |-> "item_delete_post", in |-> in,
                   item |-> item, itemInstances |-> itemInstances, errors |-> <<>>]]
     /\ UNCHANGED <<items, instances, slots, images, nextItemId, nextImageId, last>>

DeletePostDelete(r) ==
  /\ req[r].pc = "deleting"
  /\ items' = findByIdAndDelete(req[r].in.itemid)
  /\ req' = [req EXCEPT ![r] = Idle]
  /\ Respond("item_delete_post", req[r].in, <<>>, <<Redirect(ItemListUrl)>>)
  /\ UNCHANGED <<instances, slots, images, nextItemId, nextImageId>>

----------------------------------------------------------------------------
(* Item instances are created by the item instance controller. *)

InstanceCreate(i, item) ==
  /\ \A j \in instances : j._id # i
  /\ items[item] # Null
  /\ instances' = instances \cup {[_id |-> i, item |-> item]}
  /\ UNCHANGED <<items, slots, images, nextItemId, nextImageId, req, last>>

----------------------------------------------------------------------------
(* The validator chains that run before the handlers of item_create_post  *)
(* and item_update_post: they sanitize req.body and collect the errors.   *)

Received(kind, in) ==
  [pc |-> "received", kind |-> kind, in |-> in, item |-> Null, itemInstances |-> {},
   errors |-> <<>>]

ValidationStage(r) ==
  LET in == req[r].in
      errors == IF req[r].kind = "item_create_post"
                THEN item_create_post_validators(in.body, in.file)
                ELSE item_update_post_validators(in.body, in.file)
  IN /\ req[r].pc = "received"
     /\ req' = [req EXCEPT ![r] =
                  [pc |-> "validated", kind |-> req[r].kind, in |-> in,
                   item |-> ItemDoc(in.id, SanitizedBody(in.body), Unset),
                   itemInstances |-> {}, errors |-> errors]]
     /\ UNCHANGED <<items, instances, slots, images, nextItemId, nextImageId, last>>

----------------------------------------------------------------------------
(* Specifications, one per flow of the pipeline *)

\* Documents that item_create_post has saved earlier.
SavedItems(id) ==
  {ItemDoc(id, SanitizedBody(SwordBody), SecureUrl(GeneratedId(1)))}

\* Documents that item_update_post has left behind as well.
StoredItems(id) == SavedItems(id) \cup {ItemDoc(id, SanitizedBody(HelmBody), Sentinel)}

NoInstances == {{}}

AnyInstances == {{}} \cup {{[_id |-> 1, item |-> i]} : i \in ItemIds}

\* A store that earlier requests have filled.
InitWith(docs, instanceSets) ==
  /\ items \in [ItemIds -> {Null} \cup UNION {docs[i] : i \in ItemIds}]
  /\ \A i \in ItemIds : items[i] # Null => items[i]._id = i
  /\ instances \in instanceSets
  /\ slots = {"s1"}
  /\ images = {Asset(GeneratedId(1), PngFile)}
  /\ nextItemId = MaxItems + 1
  /\ nextImageId = 2
  /\ req = [r \in Requests |-> Idle]
  /\ last = NoResponse

CreateNext ==
  \E r \in Requests :
    \/ \E in \in CreateInputs : CreatePostRender(r, in)
    \/ \E in \in CreateInputs : CreatePostUpload(r, in)
    \/ \E in \in CreateInputs : CreatePostSave(r, in)

SpecCreate == Init /\ [][CreateNext]_vars

UpdateNext ==
  \E r \in Requests :
    \/ \E in \in UpdateInputs : UpdatePostRender(r, in)
    \/ \E in \in UpdateInputs : UpdatePostUpload(r, in)
    \/ \E in \in UpdateInputs : UpdatePostSave(r, in)

InitUpdate == InitWith([i \in ItemIds |-> SavedItems(i)], NoInstances)

SpecUpdate == InitUpdate /\ [][UpdateNext]_vars

DeleteNext ==
  \/ \E r \in Requests :
       \/ \E in \in DeleteGetInputs : DeleteGet(r, in)
       \/ \E in \in DeletePostInputs : DeletePostRender(r, in)
       \/ \E in \in DeletePostInputs : DeletePostFetch(r, in)
       \/ DeletePostDelete(r)
  \/ \E i \in InstanceIds, item \in ItemIds : InstanceCreate(i, item)

InitDelete == InitWith([i \in ItemIds |-> SavedItems(i)], AnyInstances)

SpecDelete == InitDelete /\ [][DeleteNext]_vars

\* One request at a time, refused and submitted again, from any store state.
\* Requests that pass the gate are the subject of SpecUpdate and SpecDelete.
InitRerun == InitWith([i \in ItemIds |-> StoredItems(i)], AnyInstances)

RerunNext ==
  \/ \E in \in UpdateInputs : UpdatePostRender(1, in)
  \/ \E in \in DeletePostInputs : DeletePostRender(1, in)

SpecRerun == InitRerun /\ [][RerunNext]_vars

\* Form fields and files for the validator chains.
FieldStrings ==
  {<<>>, <<" ", "\t">>, <<"a">>, <<" ", "a", "b", " ">>, <<"a", "<", "b">>, <<"<", "b">>}

ValidationFiles ==
  {NoFile, PngFile, TextFile,
   [present |-> TRUE, mimetype |-> <<"i", "m", "a", "g", "e">>, buffer |-> 3],
   [present |-> TRUE, mimetype |-> <<"x", "/", "i", "m", "a", "g", "e", "/">>, buffer |-> 4]}

ValidationInputs ==
  {[id |-> 1, itemid |-> 0, security_code |-> ExpectedCode,
    body |-> [name |-> n, description |-> d, quality |-> q, slot |-> s], file |-> f] :
     n \in FieldStrings, d \in FieldStrings, q \in FieldStrings, s \in FieldStrings,
     f \in ValidationFiles}

InitValidate ==
  /\ items = [i \in ItemIds |-> Null]
  /\ instances = {}
  /\ slots = {"s1"}
  /\ images = {}
  /\ nextItemId = 1
  /\ nextImageId = 1
  /\ \E kind \in {"item_create_post", "item_update_post"}, in \in ValidationInputs :
       req = [r \in Requests |-> IF r = 1 THEN Received(kind, in) ELSE Idle]
  /\ last = NoResponse

ValidateNext == \E r \in Requests : ValidationStage(r)

SpecValidate == InitValidate /\ [][ValidateNext]_vars

----------------------------------------------------------------------------
(* Properties *)

\* The step completes a request of the given handler.
Completes(kind) == last'.n # last.n /\ last'.kind = kind

Refusal(l) ==
  /\ l.kind \in {"item_update_post", "item_delete_post"}
  /\ Len(l.calls) = 1
  /\ l.calls[1].op = "render"

Existing(its) == {i \in ItemIds : its[i] # Null}

\* C1: whenever item_delete_post removes an Item, no ItemInstance references
\* the removed Item at the moment of removal.
C1_RemovedItemUnreferenced ==
  [][\A i \in ItemIds :
       (Completes("item_delete_post") /\ items[i] # Null /\ items'[i] = Null)
         => \A j \in instances : j.item # i]_vars

\* C2: item_delete_post for the Item id succeeds (the Item with that id is
\* gone and the response is the redirect to the item list) if and only if the
\* handler found no instance referencing the id and the security code is "123".
C2_DeleteSucceedsIff ==
  [][Completes("item_delete_post") =>
       LET in == last'.in
           found == IF \E r \in Requests : req[r].pc = "deleting" /\ req'[r] = Idle
                    THEN UNION {req[r].itemInstances :
                                  r \in {q \in Requests : req[q].pc = "deleting"
                                                            /\ req'[q] = Idle}}
                    ELSE {j \in instances : j.item = in.id}
           succeeds == /\ last'.calls = <<Redirect(ItemListUrl)>>
                       /\ items'[in.id] = Null
       IN succeeds <=> (Cardinality(found) = 0 /\ in.security_code = ExpectedCode)]_vars

\* C3: item_delete_post is refused whenever an ItemInstance references the
\* Item, also with the right security code: the handler goes on to the
\* deletion only if it read no instance of the Item, and a refusal renders
\* item_delete and leaves the Item records as they are.
C3_ReferencedItemRefused ==
  [][/\ \A r \in Requests :
          (req[r] = Idle /\ req'[r].pc = "deleting")
            => \A j \in instances : j.item # req'[r].in.id
     /\ (Completes("item_delete_post") /\ req' = req)
          => /\ Len(last'.calls) = 1
             /\ last'.calls[1].op = "render"
             /\ last'.calls[1].view = "item_delete"
             /\ items' = items]_vars

C3_Witness ==
  /\ last.kind = "item_delete_post"
  /\ last.in.security_code = ExpectedCode
  /\ last.calls[1].op = "render"
  /\ last.calls[1].bag.itemInstances # {}
  /\ items[last.in.id] # Null

\* C4: item_update_post with a security code other than "123" changes
\* nothing, whatever the fields and the file: the Items and the Image Store
\* stay as they are, no upload is ever started for it, and item_form is
\* rendered again.
C4_WrongCodeNoMutation ==
  [][/\ \A r \in Requests :
          req'[r].kind = "item_update_post" => req'[r].in.security_code = ExpectedCode
     /\ (Completes("item_update_post") /\ last'.in.security_code # ExpectedCode)
          => /\ items' = items
             /\ images' = images
             /\ instances' = instances
             /\ Len(last'.calls) = 1
             /\ last'.calls[1].op = "render"
             /\ last'.calls[1].view = "item_form"
             /\ last'.calls[1].bag.error = "Wrong security code."]_vars

C4_Witness ==
  /\ last.kind = "item_update_post"
  /\ last.in.security_code # ExpectedCode
  /\ item_update_post_validators(last.in.body, last.in.file) = <<>>
  /\ last.in.file.present
  /\ items[last.in.id] # Null
  /\ last.calls[1].view = "item_form"

\* C5: item_create_post with validation errors ends without persistence: no
\* Item is added, no image is uploaded, and item_form is rendered with the
\* candidate, the slot list and the errors.
C5_InvalidCreateNotPersisted ==
  [][/\ \A r \in Requests :
          req'[r].kind = "item_create_post"
            => item_create_post_validators(req'[r].in.body, req'[r].in.file) = <<>>
     /\ (/\ Completes("item_create_post")
         /\ item_create_post_validators(last'.in.body, last'.in.file) # <<>>)
          => /\ items' = items
             /\ images' = images
             /\ Len(last'.calls) = 1
             /\ last'.calls[1].op = "render"
             /\ last'.calls[1].view = "item_form"
             /\ last'.calls[1].bag.errors
                  = item_create_post_validators(last'.in.body, last'.in.file)
             /\ last'.calls[1].bag.slots = slots
             /\ last'.calls[1].bag.item.name = Escape(Trim(last'.in.body.name))
             /\ last'.calls[1].bag.item.description
                  = Escape(Trim(last'.in.body.description))
             /\ last'.calls[1].bag.item.quality = Escape(Trim(last'.in.body.quality))
             /\ last'.calls[1].bag.item.slot = Escape(Trim(last'.in.body.slot))]_vars

C5_Witness ==
  /\ last.kind = "item_create_post"
  /\ last.calls[1].op = "render"
  /\ Len(last.calls[1].bag.errors) = 2
  /\ last.in.file.present
  /\ Existing(items) # {}

\* C6: item_create_post with valid input persists exactly one new Item; its
\* imgUrl is "#" when no file came, and otherwise the URL of an asset that is
\* already in the Image Store, uploaded from the file under "wow_inventory".
C6_ValidCreatePersistsOne ==
  [][(/\ Completes("item_create_post")
      /\ item_create_post_validators(last'.in.body, last'.in.file) = <<>>)
       => \E i \in ItemIds :
            /\ items[i] = Null
            /\ items'[i] # Null
            /\ \A k \in ItemIds \ {i} : items'[k] = items[k]
            /\ last'.calls = <<Redirect(ItemUrl(i))>>
            /\ items'[i].name = Escape(Trim(last'.in.body.name))
            /\ IF ~last'.in.file.present
               THEN items'[i].imgUrl = Sentinel
               ELSE \E a \in images :
                      /\ a.folder = "wow_inventory"
                      /\ a.data = DataURI(last'.in.file)
                      /\ items'[i].imgUrl
                           = <<"https://res.cloudinary.com/", a.folder, "/", a.public_id>>]_vars

C6_Witness ==
  /\ last.kind = "item_create_post"
  /\ last.calls[1].op = "redirect"
  /\ last.in.file.present
  /\ items[last.calls[1].url.id].imgUrl # Sentinel
  /\ \E i \in ItemIds : items[i] # Null /\ items[i].imgUrl = Sentinel

\* C7: for every combination of name, description, quality, slot and file,
\* the validator chain of item_create_post and of item_update_post returns
\* exactly one error, with the rule's message, for each violated rule, and
\* no error when no rule is violated.
Count(errors, msg) == Cardinality({k \in 1..Len(errors) : errors[k].msg = msg})

Violated(body, file) ==
  [name |-> Len(Trim(body.name)) < 1,
   description |-> Len(Trim(body.description)) < 3,
   quality |-> Len(Trim(body.quality)) < 1,
   slot |-> Len(Trim(body.slot)) < 1,
   itemImage |-> file.present /\ ~StartsWith(file.mimetype, ImagePrefix)]

One(b) == IF b THEN 1 ELSE 0

C7_OneErrorPerViolatedRule ==
  \A r \in Requests :
    req[r].pc = "validated" =>
      LET v == Violated(req[r].in.body, req[r].in.file)
          e == req[r].errors
      IN /\ Count(e, "Name must not be empty.") = One(v.name)
         /\ Count(e, "Description must not be empty.") = One(v.description)
         /\ Count(e, "Quality must not be empty.") = One(v.quality)
         /\ Count(e, "Slot must not be empty") = One(v.slot)
         /\ Count(e, "Please submit a image file") = One(v.itemImage)
         /\ Len(e) = One(v.name) + One(v.description) + One(v.quality)
                       + One(v.slot) + One(v.itemImage)

C7_Witness ==
  \E r \in Requests :
    /\ req[r].pc = "validated"
    /\ req[r].kind = "item_update_post"
    /\ req[r].in.body.description = <<" ", "a", "b", " ">>
    /\ req[r].in.body.name = <<"a">>
    /\ Len(req[r].errors) = 3

\* C8: when item_delete_get finds no Item for the id, it redirects to the
\* item list and does not render the confirmation view.
C8_MissingItemRedirectsOnly ==
  [][(Completes("item_delete_get") /\ items[last'.in.id] = Null)
       => last'.calls = <<Redirect(ItemListUrl)>>]_vars

\* C9: a refused item_update_post or item_delete_post leaves the Catalog
\* Store and the Image Store as they were, and the same request run again
\* right after it is answered by the same rendering.
C9_RefusedRerunSame ==
  [][/\ (last'.n # last.n /\ Refusal(last'))
          => /\ items' = items
             /\ instances' = instances
             /\ slots' = slots
             /\ images' = images
     /\ (/\ last'.n # last.n
         /\ Refusal(last)
         /\ last'.kind = last.kind
         /\ last'.in = last.in)
          => last'.calls = last.calls]_vars

C9_Witness ==
  /\ Refusal(last)
  /\ last.n = 0
  /\ last.kind = "item_delete_post"
  /\ last.calls[1].bag.itemInstances # {}
  /\ last.in.security_code = ExpectedCode

\* C10: item_update_post that passes the gate without a file sets the stored
\* Item's imgUrl to "#", replaces its name, description, quality and slot by
\* the candidate's, and neither adds nor removes an Item.
C10_UpdateWithoutFile ==
  [][(/\ Completes("item_update_post")
      /\ item_update_post_validators(last'.in.body, last'.in.file) = <<>>
      /\ last'.in.security_code = ExpectedCode
      /\ ~last'.in.file.present)
       => LET id == last'.in.id
              body == last'.in.body
          IN /\ Existing(items') = Existing(items)
             /\ \A k \in ItemIds \ {id} : items'[k] = items[k]
             /\ items[id] # Null =>
                  items'[id] = [_id |-> id,
                                name |-> Escape(Trim(body.name)),
                                description |-> Escape(Trim(body.description)),
                                quality |-> Escape(Trim(body.quality)),
                                slot |-> Escape(Trim(body.slot)),
                                imgUrl |-> Sentinel]
             /\ last'.calls = <<Redirect(ItemUrl(id))>>]_vars

C10_Witness ==
  /\ last.kind = "item_update_post"
  /\ last.calls[1].op = "redirect"
  /\ ~last.in.file.present
  /\ items[last.in.id] # Null
  /\ items[last.in.id].imgUrl = Sentinel
  /\ items[last.in.id].description = <<"o", "&", "g", "t", ";", "d">>
  /\ \E k \in ItemIds : items[k] = Null

====
